---- MODULE Spec2Model ----
(***************************************************************************)
(* The task-detail view of the video summarizer front end                  *)
(* (src/frontend/src/views/Tasks.vue, second component, lines 602-1460):   *)
(* the poll loop (startPolling / stopPolling), the poll-intent flag kept   *)
(* in localStorage, loadRecord and the re-processing handlers.             *)
(*                                                                         *)
(* The browser runs the component on one thread: every action below is one *)
(* run-to-completion step, from an event (mount, click, timer, response)   *)
(* to the next await.  A request in flight is a continuation waiting in    *)
(* `ticks`, `loads` or `pending`; the response it receives is an input of  *)
(* the step that resumes it.                                               *)
(***************************************************************************)
EXTENDS Integers, FiniteSets, Sequences, Bags, TLC

---------------------------------------------------------------------------
(* Bounds of the model *)

\* interval timers one view instance may create (calls of startPolling)
MaxTimers == 2
\* requests (of ticks, of loadRecord, of handlers) in flight at the same time
MaxInFlight == 2

---------------------------------------------------------------------------
(* Values *)

\* task ids with a key in localStorage; the route shows RouteIds' task
TaskIds == {1, 2}
RouteIds == {1}

\* record.value === null
NullRecord == [isNull |-> TRUE]

\* the statuses responses carry; the view treats pending, downloading and
\* extracting_audio exactly as it treats summarizing
Statuses == {"transcribing", "summarizing", "completed", "failed"}

processingStatuses ==
    {"pending", "downloading", "extracting_audio", "transcribing", "summarizing"}

\* progress / summary / transcription as one response carries them
Contents ==
    { [progress |-> 0,   summary |-> "",  transcription |-> ""],
      [progress |-> 100, summary |-> "S", transcription |-> "T"] }

\* the signed URLs of one response: none, or one of two issues
UrlSets ==
    { [video_url |-> "",   audio_url |-> "",   transcription_url |-> ""],
      [video_url |-> "v1", audio_url |-> "a1", transcription_url |-> "t1"],
      [video_url |-> "v2", audio_url |-> "a2", transcription_url |-> "t2"] }

NoUrls == [video_url |-> "", audio_url |-> "", transcription_url |-> ""]

\* data of GET /v1/tasks/{id} (TaskStatus: no *_url fields are read)
TickData ==
    { [status |-> s, progress |-> c.progress, summary |-> c.summary,
       transcription |-> c.transcription] : s \in Statuses, c \in Contents }

\* data of refresh-urls, history detail and retry (Record)
FullRecords ==
    { [status |-> s, progress |-> c.progress, summary |-> c.summary,
       transcription |-> c.transcription, video_url |-> u.video_url,
       audio_url |-> u.audio_url, transcription_url |-> u.transcription_url]
      : s \in Statuses, c \in Contents, u \in UrlSets }

\* JavaScript's a || b on strings
OrElse(a, b) == IF a # "" THEN a ELSE b

Sessions == 1..MaxTimers

Handlers == {"handleRetranscribe", "handleResummarize", "handleRetry",
             "handleRefreshUrls", "handleCustomPromptResummarize"}

---------------------------------------------------------------------------
VARIABLES
    phase,               \* "created", "mounted", "unmounted"
    recordId,            \* parseInt(route.params.recordId)
    storageThrows,       \* localStorage access raises
    storage,             \* localStorage: key -> item ("absent" when no item)
    record,              \* record.value
    stableVideoUrl,      \* stableVideoUrl.value
    loading, retryLoading, retranscribeLoading, refreshingUrls,
    pollingInterval,     \* the handle; 0 is null
    timers,              \* the browser's live interval timers
    nextTimer,           \* handles handed out so far
    preserved,           \* preservedUrls of each created timer's closure
    ticks,               \* per session: getTaskStatus requests in flight
    loads,               \* bag of loadRecord continuations
    pending,             \* per handler: requests in flight
    notified,            \* per session: terminal notifications emitted
    refreshedIn,         \* the session live at a successful handleRefreshUrls, if still live
    last,                \* what the last step did
    backend,             \* the task as the backend stores it (re-processing scenario)
    \* the task list view (Tasks.vue, first component)
    listPhase,           \* "created", "mounted", "unmounted"
    activeTab,           \* activeTab.value
    listLoading,         \* loading.value
    refreshInterval,     \* refreshInterval.value; 0 is undefined
    listTimers,          \* the browser's live interval timers of the list view
    refreshes,           \* bag of refreshTasks continuations
    listData,            \* currentPage, pageSize, totalTasks and the four lists
    \* the task store (router/index.ts)
    tasks,               \* tasks.value: Map from id to task
    \* the URL form, per input field
    formPhase,           \* "created", "mounted"
    formData,            \* formData.url / batchFormData.url
    analyzeTimer,        \* analyzeTimer / analyzeBatchTimer; 0 is null
    formTimers,          \* the browser's pending timeouts, each with the url of its closure
    nextFormTimer,       \* handles handed out so far
    analyzing,           \* analyzing / analyzingBatch
    urlAnalysis,         \* urlAnalysis / batchUrlAnalysis: the url analysed, or "null"
    requests,            \* bag of analyzeUrl requests in flight (their urls)
    latestUrl            \* the latest non-blank url passed to the debounced call

\* the components other than the detail view
ListVars == <<listPhase, activeTab, listLoading, refreshInterval, listTimers,
              refreshes, listData>>
FormVars == <<formPhase, formData, analyzeTimer, formTimers, nextFormTimer,
              analyzing, urlAnalysis, requests, latestUrl>>
Others == <<backend, ListVars, tasks, FormVars>>

vars == <<phase, recordId, storageThrows, storage, record, stableVideoUrl,
          loading, retryLoading, retranscribeLoading, refreshingUrls,
          pollingInterval, timers, nextTimer, preserved, ticks, loads,
          pending, notified, refreshedIn, last, Others>>

\* the detail view and its requests in flight
DetailVars == <<phase, recordId, storageThrows, storage, record, stableVideoUrl,
                loading, retryLoading, retranscribeLoading, refreshingUrls,
                pollingInterval, timers, nextTimer, preserved, ticks, loads,
                pending, notified, refreshedIn>>

---------------------------------------------------------------------------
(* Poll-intent flag *)

\* one key for every task
getPollingKey_shared(taskId) == <<"summarizing_task_", 0>>

getPollingKey(taskId) == <<"summarizing_task_", taskId>>

Keys == { getPollingKey(t) : t \in TaskIds }

\* !!item
Truthy(item) == item \notin {"absent", ""}

\* the storage after setPollingFlag(taskId, value)
setPollingFlag(st, throws, taskId, value) ==
    IF throws THEN st
    ELSE IF value THEN [st EXCEPT ![getPollingKey(taskId)] = "1"]
    ELSE [st EXCEPT ![getPollingKey(taskId)] = "absent"]

\* getPollingFlag without its try/catch taken to read through
getPollingFlag_readsThrough(st, throws, taskId) == Truthy(st[getPollingKey(taskId)])

getPollingFlag(st, throws, taskId) ==
    IF throws THEN FALSE ELSE Truthy(st[getPollingKey(taskId)])

---------------------------------------------------------------------------
(* The view's mutable state as one value, so that handlers compose *)

View ==
    [ storage |-> storage, record |-> record, stableVideoUrl |-> stableVideoUrl,
      loading |-> loading, retryLoading |-> retryLoading,
      retranscribeLoading |-> retranscribeLoading,
      refreshingUrls |-> refreshingUrls, pollingInterval |-> pollingInterval,
      timers |-> timers, nextTimer |-> nextTimer, preserved |-> preserved,
      loads |-> loads ]

\* the closure of a cancelled timer with no request in flight is garbage
Collected(pres, tm, tk) ==
    [s \in Sessions |-> IF s \in tm \/ tk[s] > 0 THEN pres[s] ELSE NoUrls]

\* the tally of a session that can notify no more is dropped with its closure
Tally(nt, tm, tk) ==
    [s \in Sessions |-> IF s \in tm \/ tk[s] > 0 THEN nt[s] ELSE 0]

CommitAll(v, tk, nt, rf) ==
    /\ ticks' = tk
    /\ notified' = Tally(nt, v.timers, tk)
    /\ refreshedIn' = IF rf \in v.timers THEN rf ELSE 0
    /\ storage' = v.storage
    /\ record' = v.record
    /\ stableVideoUrl' = v.stableVideoUrl
    /\ loading' = v.loading
    /\ retryLoading' = v.retryLoading
    /\ retranscribeLoading' = v.retranscribeLoading
    /\ refreshingUrls' = v.refreshingUrls
    /\ pollingInterval' = v.pollingInterval
    /\ timers' = v.timers
    /\ nextTimer' = v.nextTimer
    /\ preserved' = Collected(v.preserved, v.timers, tk)
    /\ loads' = v.loads

Commit(v, tk) == CommitAll(v, tk, notified, refreshedIn)

Flag(v) == getPollingFlag(v.storage, storageThrows, recordId)

\* clearInterval(h)
clearInterval(tm, h) == tm \ {h}

\* record.value?.field
Field(rec, f) == IF rec = NullRecord THEN "" ELSE rec[f]

\* stopPolling that also forgets the poll intent
stopPolling_clearsFlag(v) ==
    [v EXCEPT !.timers = clearInterval(v.timers, v.pollingInterval),
              !.pollingInterval = 0,
              !.storage = setPollingFlag(v.storage, storageThrows, recordId, FALSE)]

stopPolling(v) ==
    IF v.pollingInterval # 0
    THEN [v EXCEPT !.timers = clearInterval(v.timers, v.pollingInterval),
                   !.pollingInterval = 0]
    ELSE v

\* startPolling without the setPollingFlag(taskId, true) of line 1108
startPolling_noFlag(v, taskId) ==
    LET handle == v.nextTimer + 1
        cleared == IF v.pollingInterval # 0
                   THEN clearInterval(v.timers, v.pollingInterval)
                   ELSE v.timers
        preservedUrls ==
            [video_url |-> OrElse(v.stableVideoUrl, Field(v.record, "video_url")),
             audio_url |-> Field(v.record, "audio_url"),
             transcription_url |-> Field(v.record, "transcription_url")]
    IN [v EXCEPT !.timers = cleared \cup {handle},
                 !.pollingInterval = handle,
                 !.nextTimer = handle,
                 !.preserved = [v.preserved EXCEPT ![handle] = preservedUrls]]

\* startPolling without the clearInterval of lines 1110-1112
startPolling_noClear(v, taskId) ==
    LET handle == v.nextTimer + 1
        preservedUrls ==
            [video_url |-> OrElse(v.stableVideoUrl, Field(v.record, "video_url")),
             audio_url |-> Field(v.record, "audio_url"),
             transcription_url |-> Field(v.record, "transcription_url")]
    IN [v EXCEPT !.storage = setPollingFlag(v.storage, storageThrows, taskId, TRUE),
                 !.timers = v.timers \cup {handle},
                 !.pollingInterval = handle,
                 !.nextTimer = handle,
                 !.preserved = [v.preserved EXCEPT ![handle] = preservedUrls]]

\* needs v.nextTimer < MaxTimers
startPolling(v, taskId) ==
    LET handle == v.nextTimer + 1
        cleared == IF v.pollingInterval # 0
                   THEN clearInterval(v.timers, v.pollingInterval)
                   ELSE v.timers
        preservedUrls ==
            [video_url |-> OrElse(v.stableVideoUrl, Field(v.record, "video_url")),
             audio_url |-> Field(v.record, "audio_url"),
             transcription_url |-> Field(v.record, "transcription_url")]
    IN [v EXCEPT !.storage = setPollingFlag(v.storage, storageThrows, taskId, TRUE),
                 !.timers = cleared \cup {handle},
                 !.pollingInterval = handle,
                 !.nextTimer = handle,
                 !.preserved = [v.preserved EXCEPT ![handle] = preservedUrls]]

\* loadRecord up to its first await
loadRecord(v) ==
    [v EXCEPT !.loading = TRUE,
              !.loads = v.loads (+) SetToBag({[pc |-> "refreshUrls", fetched |-> ""]})]

Sum(f, S) == LET RECURSIVE sum(_)
                 sum(T) == IF T = {} THEN 0
                           ELSE LET x == CHOOSE x \in T : TRUE
                                IN f[x] + sum(T \ {x})
             IN sum(S)

\* requests in flight
InFlight == Sum(ticks, Sessions) + BagCardinality(loads) + Sum(pending, Handlers)

getVideoUrl ==
    IF record = NullRecord THEN ""
    ELSE IF stableVideoUrl # "" THEN stableVideoUrl
    ELSE record.video_url

---------------------------------------------------------------------------
\* the input fields of the URL form
Fields == {"url", "batch"}

\* the other components before they are created
OthersIdle ==
    /\ backend = "-"
    /\ listPhase = "created"
    /\ activeTab = "all"
    /\ listLoading = FALSE
    /\ refreshInterval = 0
    /\ listTimers = {}
    /\ refreshes = EmptyBag
    /\ listData = [currentPage |-> 1, pageSize |-> 20, totalTasks |-> 0,
                   allTasks |-> {}, runningTasks |-> {}, completedTasks |-> {},
                   failedTasks |-> {}]
    /\ tasks = << >>
    /\ formPhase = "created"
    /\ formData = [f \in Fields |-> ""]
    /\ analyzeTimer = [f \in Fields |-> 0]
    /\ formTimers = [f \in Fields |-> {}]
    /\ nextFormTimer = [f \in Fields |-> 0]
    /\ analyzing = [f \in Fields |-> FALSE]
    /\ urlAnalysis = [f \in Fields |-> "null"]
    /\ requests = [f \in Fields |-> EmptyBag]
    /\ latestUrl = [f \in Fields |-> ""]

Init ==
    /\ phase = "created"
    /\ recordId \in RouteIds
    /\ storageThrows = FALSE
    /\ storage \in [Keys -> {"absent", "1"}]
    /\ \A t \in TaskIds \ {recordId} : storage[getPollingKey(t)] = "absent"
    /\ record = NullRecord
    /\ stableVideoUrl = ""
    /\ loading = FALSE
    /\ retryLoading = FALSE
    /\ retranscribeLoading = FALSE
    /\ refreshingUrls = FALSE
    /\ pollingInterval = 0
    /\ timers = {}
    /\ nextTimer = 0
    /\ preserved = [s \in Sessions |-> NoUrls]
    /\ ticks = [s \in Sessions |-> 0]
    /\ loads = EmptyBag
    /\ pending = [h \in Handlers |-> 0]
    /\ notified = [s \in Sessions |-> 0]
    /\ refreshedIn = 0
    /\ last = [op |-> "init"]
    /\ OthersIdle

Quiet == [op |-> "-"]

Fixed == <<recordId, storageThrows, Others>>

\* onMounted: loadRecord() (loadPrompts touches nothing modelled here)
Mount ==
    /\ phase = "created"
    /\ phase' = "mounted"
    /\ Commit(loadRecord(View), ticks)
    /\ last' = Quiet
    /\ UNCHANGED <<Fixed, pending>>

\* onUnmounted: stopPolling()
Unmount ==
    /\ phase = "mounted"
    /\ phase' = "unmounted"
    /\ Commit(stopPolling(View), ticks)
    /\ last' = Quiet
    /\ UNCHANGED <<Fixed, pending>>

---------------------------------------------------------------------------
(* loadRecord, resumed by its responses *)

Moved(bag, from, to) == (bag (-) SetToBag({from})) (+) SetToBag({to})
Dropped(bag, from) == bag (-) SetToBag({from})

\* the decision without the flag
shouldPoll_statusOnly(v) ==
    v.record # NullRecord /\ v.record.status \in processingStatuses

shouldPoll(v) ==
    LET shouldPollByStatus ==
            v.record # NullRecord /\ v.record.status \in processingStatuses
        shouldPollByFlag == Flag(v)
    IN shouldPollByStatus \/ shouldPollByFlag

\* the poll decision of loadRecord and its finally block
decidePolling(v) ==
    LET v1 == IF shouldPoll(v) THEN startPolling(v, recordId) ELSE v
    IN [v1 EXCEPT !.loading = FALSE]

\* what the decision found: the status its request had fetched, the flag, and
\* the handles handed out before it
Decision(l, v) ==
    [op |-> "loadRecord", path |-> l.pc, fetched |-> l.fetched,
     flag |-> Flag(v), handlesBefore |-> v.nextTimer]

\* refreshUrls answered success with data
LoadRefreshOk(l, d) ==
    /\ l \in BagToSet(loads) /\ l.pc = "refreshUrls"
    /\ Commit([View EXCEPT
            !.record = d,
            !.stableVideoUrl = OrElse(d.video_url, stableVideoUrl),
            !.loads = Moved(loads, l, [pc |-> "loadSummaries", fetched |-> d.status])], ticks)
    /\ last' = Quiet
    /\ UNCHANGED <<phase, Fixed, pending>>

\* refreshUrls answered without success: nothing but the finally block
LoadRefreshUnsuccessful(l) ==
    /\ l \in BagToSet(loads) /\ l.pc = "refreshUrls"
    /\ Commit([View EXCEPT !.loading = FALSE, !.loads = Dropped(loads, l)], ticks)
    /\ last' = Quiet
    /\ UNCHANGED <<phase, Fixed, pending>>

\* refreshUrls rejected, or answered success without data (record.value is set
\* to the missing data, then response.data.video_url throws): the catch block
\* falls back to getHistoryDetail
LoadRefreshThrows(l, noData) ==
    /\ l \in BagToSet(loads) /\ l.pc = "refreshUrls"
    /\ Commit([View EXCEPT
            !.record = IF noData THEN NullRecord ELSE record,
            !.loads = Moved(loads, l, [pc |-> "getHistoryDetail", fetched |-> ""])], ticks)
    /\ last' = Quiet
    /\ UNCHANGED <<phase, Fixed, pending>>

\* getHistoryDetail answered success with data
LoadDetailOk(l, d) ==
    /\ l \in BagToSet(loads) /\ l.pc = "getHistoryDetail"
    /\ Commit([View EXCEPT
            !.record = d,
            !.loads = Moved(loads, l, [pc |-> "loadSummariesFallback",
                                       fetched |-> d.status])], ticks)
    /\ last' = Quiet
    /\ UNCHANGED <<phase, Fixed, pending>>

\* getHistoryDetail answered success without data: loadSummaries returns at
\* once on the missing record, the decision follows in the same step
LoadDetailNoData(l) ==
    /\ l \in BagToSet(loads) /\ l.pc = "getHistoryDetail"
    /\ LET v == [View EXCEPT !.record = NullRecord, !.loads = Dropped(loads, l)]
       IN /\ shouldPoll(v) => nextTimer < MaxTimers
          /\ Commit(decidePolling(v), ticks)
          /\ last' = Decision(l, v)
    /\ UNCHANGED <<phase, Fixed, pending>>

\* getHistoryDetail answered without success, or rejected (message.error)
LoadDetailFails(l) ==
    /\ l \in BagToSet(loads) /\ l.pc = "getHistoryDetail"
    /\ Commit([View EXCEPT !.loading = FALSE, !.loads = Dropped(loads, l)], ticks)
    /\ last' = Quiet
    /\ UNCHANGED <<phase, Fixed, pending>>

\* loadSummaries settled (it catches its own errors): the poll decision
LoadSummariesDone(l) ==
    /\ l \in BagToSet(loads) /\ l.pc \in {"loadSummaries", "loadSummariesFallback"}
    /\ LET v == [View EXCEPT !.loads = Dropped(loads, l)]
       IN /\ shouldPoll(v) => nextTimer < MaxTimers
          /\ Commit(decidePolling(v), ticks)
          /\ last' = Decision(l, v)
    /\ UNCHANGED <<phase, Fixed, pending>>

---------------------------------------------------------------------------
(* The interval callback *)

\* the timer fires: the callback issues getTaskStatus and awaits it
\* a timer that waits for the answer to its last request before it fires again
TimerFire_waitsForFetch(s) ==
    /\ s \in timers
    /\ ticks[s] = 0
    /\ InFlight < MaxInFlight
    /\ Commit(View, [ticks EXCEPT ![s] = @ + 1])
    /\ last' = Quiet
    /\ UNCHANGED <<phase, Fixed, pending>>

TimerFire(s) ==
    /\ s \in timers
    /\ InFlight < MaxInFlight
    /\ Commit(View, [ticks EXCEPT ![s] = @ + 1])
    /\ last' = Quiet
    /\ UNCHANGED <<phase, Fixed, pending>>

\* a rejected request taken as the end of the session
TickRejected_stopsPolling(s) ==
    /\ ticks[s] > 0
    /\ Commit(stopPolling(View), [ticks EXCEPT ![s] = @ - 1])
    /\ last' = [op |-> "tick", s |-> s, outcome |-> "rejected"]
    /\ UNCHANGED <<phase, Fixed, pending>>

\* getTaskStatus rejected: console.error
TickRejected(s) ==
    /\ ticks[s] > 0
    /\ Commit(View, [ticks EXCEPT ![s] = @ - 1])
    /\ last' = [op |-> "tick", s |-> s, outcome |-> "rejected"]
    /\ UNCHANGED <<phase, Fixed, pending>>

\* a response without success or data taken as a terminal one
TickMalformed_clearsFlag(s) ==
    /\ ticks[s] > 0
    /\ Commit([stopPolling(View) EXCEPT
                !.storage = setPollingFlag(storage, storageThrows, recordId, FALSE)],
              [ticks EXCEPT ![s] = @ - 1])
    /\ last' = [op |-> "tick", s |-> s, outcome |-> "malformed"]
    /\ UNCHANGED <<phase, Fixed, pending>>

\* response without success or without data
TickMalformed(s) ==
    /\ ticks[s] > 0
    /\ Commit(View, [ticks EXCEPT ![s] = @ - 1])
    /\ last' = [op |-> "tick", s |-> s, outcome |-> "malformed"]
    /\ UNCHANGED <<phase, Fixed, pending>>

Terminal(status) == status = "completed" \/ status = "failed"

\* a field of a response body; a missing field reads as empty
Fetched(d, f) == IF f \in DOMAIN d THEN d[f] ELSE ""

\* the update falling back to the response's URL where none was captured
applyTick_fallsBackToFetched(rec, d, preservedUrls) ==
    [rec EXCEPT !.status = d.status, !.summary = d.summary,
                !.transcription = d.transcription, !.progress = d.progress,
                !.audio_url = OrElse(preservedUrls.audio_url, Fetched(d, "audio_url")),
                !.transcription_url = OrElse(preservedUrls.transcription_url,
                                             Fetched(d, "transcription_url"))]

\* the update building a fresh record from the response and the URLs
applyTick_replacesRecord(rec, d, preservedUrls) ==
    [status |-> d.status, summary |-> d.summary,
     transcription |-> d.transcription, progress |-> d.progress,
     video_url |-> rec.video_url,
     audio_url |-> OrElse(preservedUrls.audio_url, rec.audio_url),
     transcription_url |-> OrElse(preservedUrls.transcription_url,
                                  rec.transcription_url)]

\* the update taking the fetched progress as an increment
applyTick_addsProgress(rec, d, preservedUrls) ==
    [rec EXCEPT !.status = d.status, !.summary = d.summary,
                !.transcription = d.transcription,
                !.progress = rec.progress + d.progress,
                !.audio_url = OrElse(preservedUrls.audio_url, rec.audio_url),
                !.transcription_url = OrElse(preservedUrls.transcription_url,
                                             rec.transcription_url)]

\* the update with the URLs taken from the response, which carries none
applyTick_overwritesUrls(rec, d, preservedUrls) ==
    [rec EXCEPT !.status = d.status, !.summary = d.summary,
                !.transcription = d.transcription, !.progress = d.progress,
                !.audio_url = "", !.transcription_url = ""]

\* the update keeping the old summary when the fetched one is empty
applyTick_keepsSummary(rec, d, preservedUrls) ==
    LET r1 == [rec EXCEPT !.status = d.status,
                          !.summary = OrElse(d.summary, rec.summary),
                          !.transcription = d.transcription,
                          !.progress = d.progress]
        r2 == IF preservedUrls.audio_url # ""
              THEN [r1 EXCEPT !.audio_url = preservedUrls.audio_url] ELSE r1
    IN IF preservedUrls.transcription_url # ""
       THEN [r2 EXCEPT !.transcription_url = preservedUrls.transcription_url]
       ELSE r2

\* the record after the callback's update (lines 1134-1148)
applyTick(rec, d, preservedUrls) ==
    LET r1 == [rec EXCEPT !.status = d.status, !.summary = d.summary,
                          !.transcription = d.transcription,
                          !.progress = d.progress]
        r2 == IF preservedUrls.audio_url # ""
              THEN [r1 EXCEPT !.audio_url = preservedUrls.audio_url] ELSE r1
    IN IF preservedUrls.transcription_url # ""
       THEN [r2 EXCEPT !.transcription_url = preservedUrls.transcription_url]
       ELSE r2

\* the wording chosen from the status the record has after the update
terminalMessage_afterUpdate(status, previousStatus) ==
    IF status = "completed"
    THEN IF status = "transcribing" THEN "transcription completed"
         ELSE "summary completed"
    ELSE IF status = "transcribing" THEN "transcription failed"
         ELSE "summary failed"

\* the toast of a terminal tick
terminalMessage(status, previousStatus) ==
    IF status = "completed"
    THEN IF previousStatus = "transcribing" THEN "transcription completed"
         ELSE "summary completed"
    ELSE IF previousStatus = "transcribing" THEN "transcription failed"
         ELSE "summary failed"

\* what a 'completed' tick re-fetches
terminalReload(status, previousStatus) ==
    IF status # "completed" THEN "none"
    ELSE IF previousStatus = "transcribing" THEN "loadRecord" ELSE "loadSummaries"

\* the terminal branch without its setPollingFlag(record.id, false)
terminalStop_keepsFlag(v, taskId) == stopPolling(v)

\* the terminal branch without its stopPolling()
terminalStop_flagOnly(v, taskId) ==
    [v EXCEPT !.storage = setPollingFlag(v.storage, storageThrows, taskId, FALSE)]

\* the view after the terminal branch (lines 1156-1171), before the reload
terminalStop(v, taskId) ==
    LET v1 == stopPolling(v)
    IN [v1 EXCEPT !.storage = setPollingFlag(v1.storage, storageThrows, taskId, FALSE)]

\* getTaskStatus answered success with data d
TickOk(s, d) ==
    /\ ticks[s] > 0
    /\ LET previousStatus == Field(record, "status")
           v1 == IF record = NullRecord THEN View
                 ELSE [View EXCEPT
                          !.record = applyTick(record, d, preserved[s]),
                          !.stableVideoUrl = OrElse(preserved[s].video_url,
                                                    stableVideoUrl)]
           v2 == IF Terminal(d.status) THEN terminalStop(v1, recordId) ELSE v1
           reload == IF Terminal(d.status)
                     THEN terminalReload(d.status, previousStatus) ELSE "none"
           v3 == IF reload = "loadRecord" THEN loadRecord(v2) ELSE v2
           nth == IF Terminal(d.status) THEN notified[s] + 1 ELSE notified[s]
       IN /\ CommitAll(v3, [ticks EXCEPT ![s] = @ - 1],
                       [notified EXCEPT ![s] = nth], refreshedIn)
          /\ last' = [op |-> "tick", s |-> s, outcome |-> "ok",
                      applied |-> record # NullRecord, data |-> d,
                      previousStatus |-> previousStatus,
                      message |-> IF Terminal(d.status)
                                  THEN terminalMessage(d.status, previousStatus)
                                  ELSE "",
                      nth |-> nth, preservedUrls |-> preserved[s],
                      reload |-> reload]
    /\ UNCHANGED <<phase, Fixed, pending>>


---------------------------------------------------------------------------
(* The re-processing handlers.  A click is offered when the template renders
   the button and the button is not in its loading state; the record is taken
   to have an audio_path, the case in which the template renders the
   retranscribe and resummarize buttons. *)

\* a handler's success branch has run
Succeeded(h, message) == [op |-> h, outcome |-> "ok", message |-> message]

\* a handler's failure branch (success = false, or the catch block) has run:
\* message.error, with the timer handle and the flag it found
Failed(h) ==
    [op |-> h, outcome |-> "failed", message |-> "error",
     timerBefore |-> pollingInterval, flagBefore |-> Flag(View)]

Resumed(h) == [pending EXCEPT ![h] = @ - 1]

\* the optimistic status a handler shows before the first tick
optimistic(rec, status, progress) ==
    IF rec = NullRecord THEN rec
    ELSE [rec EXCEPT !.status = status, !.progress = progress]

\* setPollingFlag(recordId, true); startPolling(recordId)
flagAndStart(v, taskId) ==
    startPolling([v EXCEPT !.storage =
                     setPollingFlag(v.storage, storageThrows, taskId, TRUE)],
                 taskId)

ClickRetranscribe ==
    /\ phase = "mounted"
    /\ record # NullRecord
    /\ record.status = "completed"
    /\ ~retranscribeLoading
    /\ InFlight < MaxInFlight
    /\ pending' = [pending EXCEPT !["handleRetranscribe"] = @ + 1]
    /\ Commit([View EXCEPT !.retranscribeLoading = TRUE], ticks)
    /\ last' = Quiet
    /\ UNCHANGED <<phase, Fixed>>

\* retranscribeTask answered success
RetranscribeOk ==
    /\ pending["handleRetranscribe"] > 0
    /\ nextTimer < MaxTimers
    /\ pending' = Resumed("handleRetranscribe")
    /\ LET v1 == [View EXCEPT !.record = optimistic(record, "transcribing", 60)]
           v2 == flagAndStart(v1, recordId)
       IN Commit([v2 EXCEPT !.retranscribeLoading = FALSE], ticks)
    /\ last' = Succeeded("handleRetranscribe", "info")
    /\ UNCHANGED <<phase, Fixed>>

\* retranscribeTask answered without success, or rejected
RetranscribeFails ==
    /\ pending["handleRetranscribe"] > 0
    /\ pending' = Resumed("handleRetranscribe")
    /\ Commit([View EXCEPT !.retranscribeLoading = FALSE], ticks)
    /\ last' = Failed("handleRetranscribe")
    /\ UNCHANGED <<phase, Fixed>>

ClickResummarize ==
    /\ phase = "mounted"
    /\ record # NullRecord
    /\ ~loading
    /\ InFlight < MaxInFlight
    /\ pending' = [pending EXCEPT !["handleResummarize"] = @ + 1]
    /\ Commit([View EXCEPT !.loading = TRUE], ticks)
    /\ last' = Quiet
    /\ UNCHANGED <<phase, Fixed>>

\* resummarizeTask answered success
ResummarizeOk ==
    /\ pending["handleResummarize"] > 0
    /\ nextTimer < MaxTimers
    /\ pending' = Resumed("handleResummarize")
    /\ LET v1 == [View EXCEPT !.record = optimistic(record, "summarizing", 90)]
           v2 == flagAndStart(v1, recordId)
       IN Commit([v2 EXCEPT !.loading = FALSE], ticks)
    /\ last' = Succeeded("handleResummarize", "info")
    /\ UNCHANGED <<phase, Fixed>>

\* the failure branch going on to poll as the success branch does
ResummarizeFails_startsAnyway ==
    /\ pending["handleResummarize"] > 0
    /\ nextTimer < MaxTimers
    /\ pending' = Resumed("handleResummarize")
    /\ Commit([flagAndStart(View, recordId) EXCEPT !.loading = FALSE], ticks)
    /\ last' = Failed("handleResummarize")
    /\ UNCHANGED <<phase, Fixed>>

ResummarizeFails ==
    /\ pending["handleResummarize"] > 0
    /\ pending' = Resumed("handleResummarize")
    /\ Commit([View EXCEPT !.loading = FALSE], ticks)
    /\ last' = Failed("handleResummarize")
    /\ UNCHANGED <<phase, Fixed>>

\* the modal's OK button with a non-blank prompt
ClickCustomPromptResummarize ==
    /\ phase = "mounted"
    /\ record # NullRecord
    /\ ~loading
    /\ InFlight < MaxInFlight
    /\ pending' = [pending EXCEPT !["handleCustomPromptResummarize"] = @ + 1]
    /\ Commit([View EXCEPT !.loading = TRUE], ticks)
    /\ last' = Quiet
    /\ UNCHANGED <<phase, Fixed>>

\* resummarizeTask answered success; saveCachedPrompt writes localStorage
\* outside any try of its own, so a throwing storage ends in the catch block
CustomPromptResummarizeOk ==
    /\ pending["handleCustomPromptResummarize"] > 0
    /\ ~storageThrows => nextTimer < MaxTimers
    /\ pending' = Resumed("handleCustomPromptResummarize")
    /\ LET v1 == IF storageThrows THEN View ELSE startPolling(View, recordId)
       IN Commit([v1 EXCEPT !.loading = FALSE], ticks)
    /\ last' = IF storageThrows
               THEN Failed("handleCustomPromptResummarize")
               ELSE Succeeded("handleCustomPromptResummarize", "info")
    /\ UNCHANGED <<phase, Fixed>>

CustomPromptResummarizeFails ==
    /\ pending["handleCustomPromptResummarize"] > 0
    /\ pending' = Resumed("handleCustomPromptResummarize")
    /\ Commit([View EXCEPT !.loading = FALSE], ticks)
    /\ last' = Failed("handleCustomPromptResummarize")
    /\ UNCHANGED <<phase, Fixed>>

ClickRetry ==
    /\ phase = "mounted"
    /\ record # NullRecord
    /\ record.status = "failed"
    /\ ~retryLoading
    /\ InFlight < MaxInFlight
    /\ pending' = [pending EXCEPT !["handleRetry"] = @ + 1]
    /\ Commit([View EXCEPT !.retryLoading = TRUE], ticks)
    /\ last' = Quiet
    /\ UNCHANGED <<phase, Fixed>>

\* retryTask answered success with the fresh record d
RetryOk(d) ==
    /\ pending["handleRetry"] > 0
    /\ pending' = Resumed("handleRetry")
    /\ Commit([View EXCEPT !.record = d, !.retryLoading = FALSE], ticks)
    /\ last' = Succeeded("handleRetry", "success")
    /\ UNCHANGED <<phase, Fixed>>

\* retryTask answered without success or data, or rejected
RetryFails ==
    /\ pending["handleRetry"] > 0
    /\ pending' = Resumed("handleRetry")
    /\ Commit([View EXCEPT !.retryLoading = FALSE], ticks)
    /\ last' = Failed("handleRetry")
    /\ UNCHANGED <<phase, Fixed>>

ClickRefreshUrls ==
    /\ phase = "mounted"
    /\ record # NullRecord
    /\ record.video_url # ""
    /\ ~refreshingUrls
    /\ InFlight < MaxInFlight
    /\ pending' = [pending EXCEPT !["handleRefreshUrls"] = @ + 1]
    /\ Commit([View EXCEPT !.refreshingUrls = TRUE], ticks)
    /\ last' = Quiet
    /\ UNCHANGED <<phase, Fixed>>

\* refreshUrls answered success with the record d
RefreshUrlsOk(d) ==
    /\ pending["handleRefreshUrls"] > 0
    /\ pending' = Resumed("handleRefreshUrls")
    /\ CommitAll([View EXCEPT
            !.record = d,
            !.stableVideoUrl = OrElse(d.video_url, stableVideoUrl),
            !.refreshingUrls = FALSE], ticks, notified, pollingInterval)
    /\ last' = Succeeded("handleRefreshUrls", "success")
    /\ UNCHANGED <<phase, Fixed>>

RefreshUrlsFails ==
    /\ pending["handleRefreshUrls"] > 0
    /\ pending' = Resumed("handleRefreshUrls")
    /\ Commit([View EXCEPT !.refreshingUrls = FALSE], ticks)
    /\ last' = Failed("handleRefreshUrls")
    /\ UNCHANGED <<phase, Fixed>>

---------------------------------------------------------------------------
Next ==
    \/ Mount
    \/ Unmount
    \/ \E l \in BagToSet(loads), d \in FullRecords : LoadRefreshOk(l, d)
    \/ \E l \in BagToSet(loads) : LoadRefreshUnsuccessful(l)
    \/ \E l \in BagToSet(loads), noData \in BOOLEAN : LoadRefreshThrows(l, noData)
    \/ \E l \in BagToSet(loads), d \in FullRecords : LoadDetailOk(l, d)
    \/ \E l \in BagToSet(loads) : LoadDetailNoData(l)
    \/ \E l \in BagToSet(loads) : LoadDetailFails(l)
    \/ \E l \in BagToSet(loads) : LoadSummariesDone(l)
    \/ \E s \in Sessions : TimerFire(s)
    \/ \E s \in Sessions : TickRejected(s)
    \/ \E s \in Sessions : TickMalformed(s)
    \/ \E s \in Sessions, d \in TickData : TickOk(s, d)
    \/ ClickRetranscribe
    \/ RetranscribeOk
    \/ RetranscribeFails
    \/ ClickResummarize
    \/ ResummarizeOk
    \/ ResummarizeFails
    \/ ClickCustomPromptResummarize
    \/ CustomPromptResummarizeOk
    \/ CustomPromptResummarizeFails
    \/ ClickRetry
    \/ \E d \in FullRecords : RetryOk(d)
    \/ RetryFails
    \/ ClickRefreshUrls
    \/ \E d \in FullRecords : RefreshUrlsOk(d)
    \/ RefreshUrlsFails

Spec == Init /\ [][Next]_vars

---------------------------------------------------------------------------
(* Properties *)

PollFlag == getPollingFlag(storage, storageThrows, recordId)

\* the last step was a tick that received a successful response with data
TickApplied == last.op = "tick" /\ last.outcome = "ok"

\* ... whose status was 'completed' or 'failed'
TerminalTick == TickApplied /\ Terminal(last.data.status)

\* the last step called startPolling
CalledStartPolling ==
    \/ last.op = "loadRecord" /\ nextTimer > last.handlesBefore
    \/ /\ last.op \in {"handleRetranscribe", "handleResummarize",
                       "handleCustomPromptResummarize"}
       /\ last.outcome = "ok"

\* C1 (terminal stop): after a tick that received 'completed' or 'failed' the
\* handle is null, the tick's own timer is not live and the poll-intent flag
\* of the task reads false; a session that has seen a terminal tick has no
\* live timer and no step issues a further getTaskStatus request for it.
C1_TerminalStop ==
    /\ [](/\ TerminalTick =>
                /\ pollingInterval = 0
                /\ last.s \notin timers
                /\ ~PollFlag
          /\ \A s \in Sessions : notified[s] > 0 => s \notin timers)
    /\ [][\A s \in Sessions : notified[s] > 0 => ticks'[s] <= ticks[s]]_vars

\* a terminal tick of a session whose earlier request is still in flight
C1_Witness ==
    /\ TerminalTick
    /\ pollingInterval = 0
    /\ ticks[last.s] > 0

\* C2 (one notification per session): the terminal notification a tick emits
\* is the first one of its poll session.
C2_OneNotification == TerminalTick => last.nth = 1

\* C3 (at most one timer): at most one interval timer is live, it is the one
\* the handle names, and right after a call of startPolling exactly one is.
C3_AtMostOneTimer ==
    /\ Cardinality(timers) <= 1
    /\ timers = IF pollingInterval = 0 THEN {} ELSE {pollingInterval}
    /\ CalledStartPolling => timers = {nextTimer} /\ pollingInterval = nextTimer

\* startPolling was called while an earlier timer was the live one
C3_Witness ==
    /\ CalledStartPolling
    /\ nextTimer = 2
    /\ timers = {2}
    /\ ticks[1] > 0

\* C4 (sticky fields): after a tick has updated the record, every URL that was
\* non-empty in the snapshot its session captured at startPolling has that
\* value: the video URL the view plays (getVideoUrl), the record's audio_url
\* and transcription_url.
C4_StickyPreserved ==
    (TickApplied /\ last.applied) =>
        LET p == last.preservedUrls
        IN /\ p.video_url # "" =>
                stableVideoUrl = p.video_url /\ getVideoUrl = p.video_url
           /\ p.audio_url # "" => record.audio_url = p.audio_url
           /\ p.transcription_url # "" =>
                record.transcription_url = p.transcription_url

\* a tick restored the captured URLs over a record that had been replaced by
\* one carrying other URLs
C4_Witness ==
    /\ TickApplied /\ last.applied
    /\ last.preservedUrls.video_url = "v1"
    /\ last.preservedUrls.audio_url = "a1"
    /\ record.video_url # "v1"
    /\ record.audio_url = "a1"

\* C5 (volatile overwrite): after a tick has updated the record, status,
\* progress, summary and transcription are the fetched ones.
C5_VolatileOverwrite ==
    (TickApplied /\ last.applied) =>
        /\ record.status = last.data.status
        /\ record.progress = last.data.progress
        /\ record.summary = last.data.summary
        /\ record.transcription = last.data.transcription

\* a tick with empty content replaced the optimistic 'summarizing'
C5_Witness ==
    /\ TickApplied /\ last.applied
    /\ last.previousStatus = "summarizing"
    /\ last.data.status = "transcribing"
    /\ last.data.summary = ""
    /\ record.progress = 0

---------------------------------------------------------------------------
(* The stale-flag mount: the flag is set, the backend reports 'completed' in
   every response, and the user does nothing but keep the view open. *)

InitStaleFlag ==
    /\ Init
    /\ storage[getPollingKey(recordId)] = "1"

Completed(d) == d.status = "completed"

NextStaleFlag ==
    \/ Mount
    \/ \E l \in BagToSet(loads), d \in FullRecords : Completed(d) /\ LoadRefreshOk(l, d)
    \/ \E l \in BagToSet(loads) : LoadRefreshUnsuccessful(l)
    \/ \E l \in BagToSet(loads), noData \in BOOLEAN : LoadRefreshThrows(l, noData)
    \/ \E l \in BagToSet(loads), d \in FullRecords : Completed(d) /\ LoadDetailOk(l, d)
    \/ \E l \in BagToSet(loads) : LoadDetailNoData(l)
    \/ \E l \in BagToSet(loads) : LoadDetailFails(l)
    \/ \E l \in BagToSet(loads) : LoadSummariesDone(l)
    \/ \E s \in Sessions : TimerFire(s)
    \/ \E s \in Sessions : TickRejected(s)
    \/ \E s \in Sessions : TickMalformed(s)
    \/ \E s \in Sessions, d \in TickData : Completed(d) /\ TickOk(s, d)

SpecStaleFlag == InitStaleFlag /\ [][NextStaleFlag]_vars

\* C6 (stale flag): loadRecord, having fetched 'completed' with the flag set,
\* starts polling; a tick that then observes the terminal status leaves the
\* handle null and the flag cleared, and its notification is the only one of
\* the session and has the summarization wording.
C6_StaleFlagOnce ==
    /\ (last.op = "loadRecord" /\ last.fetched = "completed" /\ last.flag)
            => CalledStartPolling
    /\ TerminalTick =>
            /\ pollingInterval = 0
            /\ ~PollFlag
            /\ last.message = "summary completed"
            /\ last.nth = 1

\* the loadRecord decision started a timer
DecisionStarted == nextTimer > last.handlesBefore

\* C7 (mount decision), as claimed: having obtained a record, loadRecord starts
\* polling exactly when the status it fetched is in progress or the flag is set.
C7_DecisionOnFetched ==
    (last.op = "loadRecord" /\ last.fetched # "") =>
        (DecisionStarted <=> (last.fetched \in processingStatuses \/ last.flag))

\* C7, amended: ... exactly when the status the record holds once loadSummaries
\* has settled is in progress, or the flag is set then; the timer it starts is
\* the only live one.
C7_DecisionOnRecord ==
    (last.op = "loadRecord" /\ last.fetched # "") =>
        /\ DecisionStarted <=>
              \/ record # NullRecord /\ record.status \in processingStatuses
              \/ last.flag
        /\ DecisionStarted => timers = {nextTimer} /\ pollingInterval = nextTimer

\* the flag alone starts polling on a terminal status
C7_Witness ==
    /\ last.op = "loadRecord"
    /\ last.fetched = "completed"
    /\ record # NullRecord /\ record.status = "completed"
    /\ last.flag
    /\ DecisionStarted

MutatingHandlers == {"handleRetry", "handleRetranscribe", "handleResummarize",
                     "handleCustomPromptResummarize"}

\* C8 (handlers start polling): when the success branch of a retry,
\* retranscribe or resummarize handler has run, a poll timer is live and the
\* poll-intent flag is set.
C8_HandlersStartPolling ==
    (last.op \in MutatingHandlers /\ last.outcome = "ok") =>
        /\ pollingInterval # 0
        /\ pollingInterval \in timers
        /\ PollFlag

\* C9 (refresh baseline): once handleRefreshUrls has succeeded during a poll
\* session, a tick of that session that updates the record leaves the video,
\* audio and transcription URLs as they are.
C9_RefreshBaseline ==
    [][(/\ refreshedIn # 0
        /\ ticks'[refreshedIn] < ticks[refreshedIn]
        /\ last'.op = "tick" /\ last'.outcome = "ok" /\ last'.applied
        /\ last'.s = refreshedIn)
       => /\ stableVideoUrl' = stableVideoUrl
          /\ record'.audio_url = record.audio_url
          /\ record'.transcription_url = record.transcription_url]_vars

\* the failure branch of a mutating handler has run
HandlerFailed == last.op \in MutatingHandlers /\ last.outcome = "failed"

\* C10 (mutating-action failure), as claimed: an error notice, no startPolling,
\* the flag as it was, and no poll timer left running.
C10_FailureStopsPolling ==
    HandlerFailed =>
        /\ last.message = "error"
        /\ PollFlag = last.flagBefore
        /\ pollingInterval = 0
        /\ timers = {}

\* C10, amended: an error notice, no startPolling, the flag as it was, and the
\* timer handle as it was: a poll that was running keeps running.
C10_FailureLeavesPolling ==
    HandlerFailed =>
        /\ last.message = "error"
        /\ PollFlag = last.flagBefore
        /\ pollingInterval = last.timerBefore
        /\ timers = IF last.timerBefore = 0 THEN {} ELSE {last.timerBefore}

\* a handler failed while a poll was running
C10_Witness ==
    /\ HandlerFailed
    /\ last.timerBefore # 0
    /\ pollingInterval = last.timerBefore
    /\ pollingInterval \in timers

---------------------------------------------------------------------------
\* C11 (teardown leaves no timer): once the view is unmounted no interval
\* timer is live.
C11_NoTimerAfterUnmount == phase = "unmounted" => timers = {}

\* the step is the resumption of a tick whose request ended as `outcome`
TickEnded(outcome) == last'.op = "tick" /\ last'.outcome = outcome

\* the step leaves the record, the URL the player uses, the timer and the
\* poll-intent storage as they were and emits no terminal notification
NoUpdateThisTick ==
    /\ record' = record
    /\ stableVideoUrl' = stableVideoUrl
    /\ pollingInterval' = pollingInterval
    /\ timers' = timers
    /\ storage' = storage
    /\ \A s \in Sessions : notified'[s] <= notified[s]

\* C12 (transient fetch failure): a tick whose getTaskStatus request is
\* rejected changes neither the record, the timer handle nor the poll-intent
\* flag and notifies nobody; the session's timer stays live, so its later
\* ticks fire as before.
C12_RejectedTickHarmless == [][TickEnded("rejected") => NoUpdateThisTick]_vars

\* a request of the running session was rejected; the timer is live, the flag set
C12_Witness ==
    /\ last.op = "tick" /\ last.outcome = "rejected"
    /\ pollingInterval = last.s
    /\ last.s \in timers
    /\ PollFlag
    /\ record # NullRecord

\* C13 (malformed response): a tick whose response has no truthy success or no
\* data changes nothing: record, stable video URL, timer handle and flag are
\* as before, no terminal notification is emitted, and polling continues.
C13_MalformedTickNoUpdate == [][TickEnded("malformed") => NoUpdateThisTick]_vars

\* a malformed response reached the running session while the record was in progress
C13_Witness ==
    /\ last.op = "tick" /\ last.outcome = "malformed"
    /\ pollingInterval = last.s
    /\ last.s \in timers
    /\ record # NullRecord
    /\ record.status \in processingStatuses

\* C15 (wording by previous status): a terminal tick reports the transcription
\* outcome exactly when the record's status before the tick's update was
\* 'transcribing', and then reloads the whole record on 'completed'; with any
\* other previous status, or no record, it reports the summarization outcome
\* and reloads no record.
C15_WordingByPreviousStatus ==
    [][(TickEnded("ok") /\ Terminal(last'.data.status)) =>
        LET wasTranscribing == record # NullRecord /\ record.status = "transcribing"
            completed == last'.data.status = "completed"
        IN /\ last'.message =
                IF wasTranscribing
                THEN IF completed THEN "transcription completed"
                     ELSE "transcription failed"
                ELSE IF completed THEN "summary completed" ELSE "summary failed"
           /\ last'.reload =
                IF ~completed THEN "none"
                ELSE IF wasTranscribing THEN "loadRecord" ELSE "loadSummaries"
           /\ BagCardinality(loads') =
                BagCardinality(loads) + IF completed /\ wasTranscribing THEN 1 ELSE 0
      ]_vars

\* a tick turned a 'transcribing' record into 'completed' and reloads it
C15_Witness ==
    /\ TerminalTick
    /\ last.previousStatus = "transcribing"
    /\ record.status = "completed"
    /\ last.message = "transcription completed"
    /\ last.reload = "loadRecord"
    /\ loading

\* C20 (stopPolling is idempotent): called on any state the view reaches,
\* stopPolling changes nothing when no timer is active, a second call changes
\* nothing more than the first, and neither the poll-intent storage nor the
\* record is touched; a terminal tick that finds the handle already null
\* leaves handle and timers as they were.
C20_StopPollingIdempotent ==
    /\ [](/\ pollingInterval = 0 => stopPolling(View) = View
          /\ stopPolling(stopPolling(View)) = stopPolling(View)
          /\ stopPolling(View).storage = storage
          /\ stopPolling(View).record = record
          /\ stopPolling(View).pollingInterval = 0)
    /\ [][(TickEnded("ok") /\ Terminal(last'.data.status) /\ pollingInterval = 0)
            => pollingInterval' = 0 /\ timers' = timers]_vars
    /\ [][(phase = "mounted" /\ phase' = "unmounted") =>
            /\ pollingInterval' = 0
            /\ storage' = storage
            /\ record' = record
            /\ pollingInterval = 0 => timers' = timers]_vars

\* the second terminal tick of a session: its stopPolling found no timer
C20_Witness ==
    /\ TerminalTick
    /\ last.nth = 2
    /\ pollingInterval = 0
    /\ timers = {}
    /\ PollFlag = FALSE

---------------------------------------------------------------------------
(* The record update of a tick on its own: a poll session is running with two
   requests in flight; the record, the stable video URL and the session's
   captured URLs are any the view can hold, the record carries the fields the
   ticks never mention, and the responses are any status bodies, with or
   without URL fields. *)

\* the fields of a Record no tick mentions (one value of each kind: identity,
\* error text, path, signed URL of the summary)
OtherValues ==
    { [id |-> 1, error_message |-> "",  audio_path |-> "/a.mp3", summary_url |-> ""],
      [id |-> 1, error_message |-> "E", audio_path |-> "/a.mp3", summary_url |-> "s1"] }

OtherFields == {"id", "error_message", "audio_path", "summary_url"}

\* response bodies of getTaskStatus
Snapshots == TickData \cup FullRecords

InitReconcile ==
    /\ phase = "mounted"
    /\ recordId \in RouteIds
    /\ storageThrows = FALSE
    /\ storage = [k \in Keys |-> IF k = getPollingKey(recordId) THEN "1" ELSE "absent"]
    /\ record \in { r @@ o : r \in FullRecords, o \in OtherValues }
    /\ stableVideoUrl \in { u.video_url : u \in UrlSets }
    /\ loading = FALSE
    /\ retryLoading = FALSE
    /\ retranscribeLoading = FALSE
    /\ refreshingUrls = FALSE
    /\ pollingInterval = 1
    /\ timers = {1}
    /\ nextTimer = 1
    /\ \E p \in UrlSets : preserved = [s \in Sessions |-> IF s = 1 THEN p ELSE NoUrls]
    /\ ticks = [s \in Sessions |-> IF s = 1 THEN 2 ELSE 0]
    /\ loads = EmptyBag
    /\ pending = [h \in Handlers |-> 0]
    /\ notified = [s \in Sessions |-> 0]
    /\ refreshedIn = 0
    /\ last = [op |-> "init"]
    /\ OthersIdle

NextReconcile == \E s \in Sessions, d \in Snapshots : TickOk(s, d)

SpecReconcile == InitReconcile /\ [][NextReconcile]_vars

\* the step is a tick that updated a record
TickUpdates == TickEnded("ok") /\ last'.applied

StickyFields == {"audio_url", "transcription_url"}

\* C16 (sticky fallback), as claimed: after a tick each sticky URL is the value
\* captured at startPolling when that is non-empty and otherwise the value the
\* tick's response carries.
C16_FallbackToFetched ==
    (TickApplied /\ last.applied) =>
        /\ \A f \in StickyFields :
              record[f] = OrElse(last.preservedUrls[f], Fetched(last.data, f))
        /\ getVideoUrl = OrElse(last.preservedUrls.video_url,
                                Fetched(last.data, "video_url"))

\* C16, amended: after a tick audio_url and transcription_url are the captured
\* value when that is non-empty and otherwise what the record held before the
\* tick; the stable video URL is the captured video URL when that is non-empty
\* and otherwise unchanged; record.video_url is not written.  No URL of the
\* response is read.
C16_FallbackToCurrent ==
    [][TickUpdates =>
        /\ \A f \in StickyFields :
              record'[f] = OrElse(preserved[last'.s][f], record[f])
        /\ stableVideoUrl' = OrElse(preserved[last'.s].video_url, stableVideoUrl)
        /\ record'.video_url = record.video_url]_vars

\* a tick of a session that captured no URL, answered with URLs the record
\* does not have: the record keeps its own
C16_Witness ==
    /\ TickApplied /\ last.applied
    /\ last.preservedUrls = NoUrls
    /\ Fetched(last.data, "audio_url") = "a2"
    /\ record.audio_url = "a1"
    /\ stableVideoUrl = "v1"

VolatileFields == {"status", "progress", "summary", "transcription"}

\* C17 (reconcile frame): a tick that updates the record leaves every field
\* other than status, progress, summary, transcription and the sticky URLs
\* with the value it had, and adds or removes no field.
C17_ReconcileFrame ==
    [][TickUpdates =>
        /\ DOMAIN record' = DOMAIN record
        /\ \A f \in DOMAIN record \ (VolatileFields \cup StickyFields) :
              record'[f] = record[f]]_vars

\* a tick changed the status of a record that carries an error text, a path
\* and a summary URL
C17_Witness ==
    /\ TickApplied /\ last.applied
    /\ OtherFields \subseteq DOMAIN record
    /\ record.error_message = "E"
    /\ record.summary_url = "s1"
    /\ record.status # last.previousStatus

\* C18 (idempotent reconcile): a tick that applies the response body and the
\* captured URLs the previous tick applied changes neither the record nor the
\* stable video URL.
C18_ReconcileIdempotent ==
    [][(/\ TickApplied /\ last.applied
        /\ TickUpdates
        /\ last'.data = last.data
        /\ preserved[last'.s] = last.preservedUrls)
        => record' = record /\ stableVideoUrl' = stableVideoUrl]_vars

\* the second of the two ticks in flight applied a body whose status the
\* record already had
C18_Witness ==
    /\ TickApplied /\ last.applied
    /\ ticks[last.s] = 0
    /\ last.previousStatus = last.data.status
    /\ record.summary = last.data.summary
    /\ last.preservedUrls # NoUrls

---------------------------------------------------------------------------
(* The poll-intent flag on its own: localStorage works and holds any items
   under the tasks' keys; setPollingFlag and getPollingFlag are called for
   any task id. *)

\* items a key may hold: none, or a string (the empty one is falsy)
Items == {"absent", "", "0", "1", "true"}

InitFlag ==
    /\ phase = "created"
    /\ recordId \in RouteIds
    /\ storageThrows = FALSE
    /\ storage \in [Keys -> Items]
    /\ record = NullRecord
    /\ stableVideoUrl = ""
    /\ loading = FALSE
    /\ retryLoading = FALSE
    /\ retranscribeLoading = FALSE
    /\ refreshingUrls = FALSE
    /\ pollingInterval = 0
    /\ timers = {}
    /\ nextTimer = 0
    /\ preserved = [s \in Sessions |-> NoUrls]
    /\ ticks = [s \in Sessions |-> 0]
    /\ loads = EmptyBag
    /\ pending = [h \in Handlers |-> 0]
    /\ notified = [s \in Sessions |-> 0]
    /\ refreshedIn = 0
    /\ last = [op |-> "init"]
    /\ OthersIdle

ViewState == <<Others, phase, recordId, storageThrows, record, stableVideoUrl, loading,
               retryLoading, retranscribeLoading, refreshingUrls,
               pollingInterval, timers, nextTimer, preserved, ticks, loads,
               pending, notified, refreshedIn>>

\* setPollingFlag(taskId, value)
SetFlag(taskId, value) ==
    /\ storage' = setPollingFlag(storage, storageThrows, taskId, value)
    /\ last' = [op |-> "setPollingFlag", taskId |-> taskId, value |-> value,
                before |-> storage]
    /\ UNCHANGED ViewState

\* getPollingFlag(taskId)
ReadFlag(taskId) ==
    /\ last' = [op |-> "getPollingFlag", taskId |-> taskId,
                result |-> getPollingFlag(storage, storageThrows, taskId)]
    /\ UNCHANGED <<ViewState, storage>>

NextFlag ==
    \/ \E t \in TaskIds, value \in BOOLEAN : SetFlag(t, value)
    \/ \E t \in TaskIds : ReadFlag(t)

SpecFlag == InitFlag /\ [][NextFlag]_vars

\* C19 (flag round trip and isolation): after setPollingFlag(t, value) the flag
\* of t reads value, a second identical call changes nothing, and the item and
\* the flag of every other task are what they were; getPollingFlag changes
\* nothing and reports whether the key holds a non-empty item.
C19_FlagRoundTrip ==
    /\ last.op = "setPollingFlag" =>
          /\ getPollingFlag(storage, storageThrows, last.taskId) = last.value
          /\ setPollingFlag(storage, storageThrows, last.taskId, last.value) = storage
          /\ \A u \in TaskIds \ {last.taskId} :
                /\ storage[getPollingKey(u)] = last.before[getPollingKey(u)]
                /\ getPollingFlag(storage, storageThrows, u)
                      = getPollingFlag(last.before, storageThrows, u)
    /\ last.op = "getPollingFlag" =>
          last.result = (storage[getPollingKey(last.taskId)] \notin {"absent", ""})

\* the flag of one task was cleared while the other task's flag was set
C19_Witness ==
    /\ last.op = "setPollingFlag"
    /\ ~last.value
    /\ getPollingFlag(last.before, storageThrows, last.taskId)
    /\ ~getPollingFlag(storage, storageThrows, last.taskId)
    /\ \E u \in TaskIds \ {last.taskId} : getPollingFlag(storage, storageThrows, u)

---------------------------------------------------------------------------
(* Storage unavailable: every localStorage access raises (whatever items the
   store holds), from construction on. *)

InitNoStorage ==
    /\ phase = "created"
    /\ recordId \in RouteIds
    /\ storageThrows = TRUE
    /\ storage = [k \in Keys |-> IF k = getPollingKey(recordId) THEN "1" ELSE "absent"]
    /\ record = NullRecord
    /\ stableVideoUrl = ""
    /\ loading = FALSE
    /\ retryLoading = FALSE
    /\ retranscribeLoading = FALSE
    /\ refreshingUrls = FALSE
    /\ pollingInterval = 0
    /\ timers = {}
    /\ nextTimer = 0
    /\ preserved = [s \in Sessions |-> NoUrls]
    /\ ticks = [s \in Sessions |-> 0]
    /\ loads = EmptyBag
    /\ pending = [h \in Handlers |-> 0]
    /\ notified = [s \in Sessions |-> 0]
    /\ refreshedIn = 0
    /\ last = [op |-> "init"]
    /\ OthersIdle

\* the view with its loads, its ticks and the retranscribe action, the handler
\* that calls setPollingFlag itself
NextNoStorage ==
    \/ Mount
    \/ Unmount
    \/ \E l \in BagToSet(loads), d \in FullRecords : LoadRefreshOk(l, d)
    \/ \E l \in BagToSet(loads) : LoadRefreshUnsuccessful(l)
    \/ \E l \in BagToSet(loads), noData \in BOOLEAN : LoadRefreshThrows(l, noData)
    \/ \E l \in BagToSet(loads), d \in FullRecords : LoadDetailOk(l, d)
    \/ \E l \in BagToSet(loads) : LoadDetailNoData(l)
    \/ \E l \in BagToSet(loads) : LoadDetailFails(l)
    \/ \E l \in BagToSet(loads) : LoadSummariesDone(l)
    \/ \E s \in Sessions : TimerFire(s)
    \/ \E s \in Sessions : TickRejected(s)
    \/ \E s \in Sessions : TickMalformed(s)
    \/ \E s \in Sessions, d \in TickData : TickOk(s, d)
    \/ ClickRetranscribe
    \/ RetranscribeOk
    \/ RetranscribeFails

SpecNoStorage == InitNoStorage /\ [][NextNoStorage]_vars

\* C14 (storage unavailable): with every localStorage access raising, the flag
\* reads false and no step changes the store; loadRecord decides on the status
\* alone and the timer it starts is live; a handler's startPolling leaves exactly
\* its timer live; a terminal tick leaves the handle null, its timer cancelled
\* and a notification emitted.
C14_StorageUnavailable ==
    /\ [](/\ storageThrows
          /\ ~PollFlag
          /\ last.op = "loadRecord" =>
                /\ ~last.flag
                /\ DecisionStarted <=>
                      (record # NullRecord /\ record.status \in processingStatuses)
                /\ DecisionStarted =>
                      pollingInterval = nextTimer /\ timers = {nextTimer}
          /\ (last.op = "handleRetranscribe" /\ last.outcome = "ok") =>
                pollingInterval = nextTimer /\ timers = {nextTimer}
          /\ TerminalTick =>
                /\ pollingInterval = 0
                /\ last.s \notin timers
                /\ last.message # ""
                /\ last.nth > 0)
    /\ [][storage' = storage]_vars

\* a terminal tick ended a session although the store still holds the item
C14_Witness ==
    /\ storageThrows
    /\ storage[getPollingKey(recordId)] = "1"
    /\ TerminalTick
    /\ last.message = "transcription completed"
    /\ pollingInterval = 0
    /\ timers = {}

---------------------------------------------------------------------------
(* The view kept open: it is mounted and never unmounted, the user triggers
   nothing, the timer keeps firing, every request is answered in the end, and
   status requests keep being answered with a terminal status sooner or
   later (the backend task ends and stays ended). *)

NextPolling ==
    \/ Mount
    \/ \E l \in BagToSet(loads), d \in FullRecords : LoadRefreshOk(l, d)
    \/ \E l \in BagToSet(loads) : LoadRefreshUnsuccessful(l)
    \/ \E l \in BagToSet(loads), noData \in BOOLEAN : LoadRefreshThrows(l, noData)
    \/ \E l \in BagToSet(loads), d \in FullRecords : LoadDetailOk(l, d)
    \/ \E l \in BagToSet(loads) : LoadDetailNoData(l)
    \/ \E l \in BagToSet(loads) : LoadDetailFails(l)
    \/ \E l \in BagToSet(loads) : LoadSummariesDone(l)
    \/ \E s \in Sessions : TimerFire(s)
    \/ \E s \in Sessions : TickRejected(s)
    \/ \E s \in Sessions : TickMalformed(s)
    \/ \E s \in Sessions, d \in TickData : TickOk(s, d)

\* a status request of session s is answered with a terminal status
TerminalAnswer(s) == \E d \in TickData : Terminal(d.status) /\ TickOk(s, d)

\* a request of loadRecord is answered
LoadAnswer ==
    \E l \in BagToSet(loads) :
        \/ \E d \in FullRecords : LoadRefreshOk(l, d)
        \/ \E d \in FullRecords : LoadDetailOk(l, d)
        \/ LoadSummariesDone(l)

FairPolling ==
    /\ \A s \in Sessions : SF_vars(TimerFire(s))
    /\ \A s \in Sessions : SF_vars(TerminalAnswer(s))
    /\ WF_vars(LoadAnswer)

SpecPolling == Init /\ [][NextPolling]_vars /\ FairPolling

\* C21 (polling eventually stops): whenever a poll timer is live, eventually
\* no timer is live and the poll-intent flag reads false.
C21_EventuallyStops == (timers # {}) ~> (timers = {} /\ ~PollFlag)

\* a session of the open view has been ended by a terminal tick
C21_Witness ==
    /\ phase = "mounted"
    /\ TerminalTick
    /\ nextTimer > 0
    /\ timers = {}
    /\ ~PollFlag

\* C22 (ticks are driven by the timer): a live timer can fire, whether or not
\* earlier requests of its session are still unanswered; and a tick of a live
\* session answered while another request of that session is still unanswered
\* applies its update to the record and, on a terminal status, ends the
\* session: the handle is null, the timer is cancelled and the flag reads false.
C22_TimerDriven ==
    /\ [](\A s \in Sessions :
              s \in timers /\ InFlight < MaxInFlight => ENABLED TimerFire(s))
    /\ [][TickEnded("ok") /\ last'.s \in timers /\ ticks'[last'.s] > 0 =>
            /\ record # NullRecord =>
                   record' = applyTick(record, last'.data, preserved[last'.s])
            /\ Terminal(last'.data.status) =>
                   /\ last'.s \notin timers'
                   /\ pollingInterval' = 0
                   /\ ~PollFlag']_vars

\* the first terminal answer of a session updated the record while an earlier
\* request of the session was still unanswered
C22_Witness ==
    /\ phase = "mounted"
    /\ TerminalTick
    /\ last.applied
    /\ last.nth = 1
    /\ ticks[last.s] > 0
    /\ record.status = last.data.status

\* C26 (stale tick): a tick answered after its session's timer was cancelled
\* (by a later startPolling, by stopPolling or by unmount) leaves the record,
\* the current session's timer and the poll-intent flag as they were and
\* emits no notification.
C26_StaleTickNoEffect ==
    [][TickEnded("ok") /\ last'.s \notin timers => NoUpdateThisTick]_vars

\* C28 (a live timer implies the flag): with working storage and one view on
\* the key, whenever a poll timer is live the poll-intent flag of the task
\* reads true; a step that creates a timer leaves the flag set, and the flag
\* is cleared only by a terminal tick, which leaves no timer live.
C28_TimerImpliesFlag ==
    /\ [](timers # {} => PollFlag)
    /\ [][nextTimer' > nextTimer => PollFlag']_vars
    /\ [][PollFlag /\ ~PollFlag' =>
            /\ TickEnded("ok")
            /\ Terminal(last'.data.status)
            /\ timers' = {}]_vars

\* a handler started a session on a record the view had seen completed
C28_Witness ==
    /\ last.op \in {"handleRetranscribe", "handleResummarize",
                    "handleCustomPromptResummarize"}
    /\ last.outcome = "ok"
    /\ timers = {nextTimer}
    /\ pollingInterval = nextTimer
    /\ PollFlag
    /\ ~storageThrows

---------------------------------------------------------------------------
(* Re-processing seen from both ends.  `backend` is the server's side of the
   task: "-" nothing requested, "accepted" a retranscribe or resummarize
   request has arrived and is answered with success while the stored status is
   still the old terminal one, "working" the stored status has been flipped
   to a processing one, "done" the re-processing has ended.  Responses carry
   the stored status. *)

Reported(b) ==
    CASE b = "working" -> {"transcribing", "summarizing"}
      [] b = "done"    -> {"completed", "failed"}
      [] OTHER         -> {"completed"}

BackendStep(from, to) ==
    /\ backend \in from
    /\ backend' = to
    /\ last' = Quiet
    /\ UNCHANGED <<DetailVars, ListVars, tasks, FormVars>>

\* the request of a re-processing handler reaches the backend
BackendAccepts ==
    /\ pending["handleRetranscribe"] + pending["handleResummarize"] > 0
    /\ BackendStep({"-", "done"}, "accepted")

\* the backend flips the stored status
BackendFlips == BackendStep({"accepted"}, "working")

\* the re-processing ends
BackendFinishes == BackendStep({"working"}, "done")

NextReprocess ==
    \/ Mount
    \/ \E l \in BagToSet(loads), d \in FullRecords :
           d.status \in Reported(backend) /\ LoadRefreshOk(l, d)
    \/ \E l \in BagToSet(loads) : LoadSummariesDone(l)
    \/ \E s \in Sessions : TimerFire(s)
    \/ \E s \in Sessions, d \in TickData :
           d.status \in Reported(backend) /\ TickOk(s, d)
    \/ ClickRetranscribe
    \/ backend = "accepted" /\ RetranscribeOk
    \/ ClickResummarize
    \/ backend = "accepted" /\ ResummarizeOk
    \/ BackendAccepts
    \/ BackendFlips
    \/ BackendFinishes

\* no intent is left over from an earlier view: a session is live only
\* after a handler or a load has started it
InitReprocess == Init /\ ~PollFlag

SpecReprocess == InitReprocess /\ [][NextReprocess]_vars

\* C27 (no premature completion): while the backend has accepted a
\* re-processing request and not finished it, no tick stops the session,
\* clears the flag or announces completion.
C27_NoPrematureCompletion ==
    [][TickEnded("ok") /\ backend \in {"accepted", "working"} =>
          /\ pollingInterval' = pollingInterval
          /\ timers' = timers
          /\ storage' = storage
          /\ \A s \in Sessions : notified'[s] <= notified[s]]_vars

---------------------------------------------------------------------------
(* The task list view (Tasks.vue, lines 55-212).  A page of tasks is the set
   of the statuses of its tasks; a response of getAllTasks carries a page and
   a total.  refreshTasks runs up to its first await when it is called; its
   continuations are the members of `refreshes`. *)

MaxRefreshes == 2

Tabs == {"all", "running", "completed", "failed"}
ListStatuses == {"transcribing", "completed", "failed"}
\* an empty page, a page without failed tasks, a page with tasks of every kind
Pages == {{}, {"transcribing", "completed"}, ListStatuses}
PageSizes == {20, 50}
MaxPage == 2
ListResponses ==
    [data : Pages, total : {0, 3}]

getStatusFilter(tab) ==
    CASE tab = "completed" -> "completed"
      [] tab = "failed"    -> "failed"
      [] OTHER             -> "undefined"

RunningOf(page) == page \cap processingStatuses

\* refreshTasks up to its first await, called by `by`
refreshTasks(by) ==
    /\ BagCardinality(refreshes) < MaxRefreshes
    /\ listLoading' = TRUE
    /\ refreshes' = refreshes (+) SetToBag({[pc |-> "getAllTasks",
                                            status |-> getStatusFilter(activeTab)]})
    /\ last' = [op |-> "refreshTasks", by |-> by]

\* onMounted: refreshTasks(); refreshInterval.value = setInterval(refreshTasks, 5000)
ListMount ==
    /\ listPhase = "created"
    /\ listPhase' = "mounted"
    /\ refreshTasks("onMounted")
    /\ refreshInterval' = 1
    /\ listTimers' = listTimers \cup {1}
    /\ UNCHANGED <<DetailVars, backend, tasks, FormVars, activeTab, listData>>

\* onUnmounted without its clearInterval
ListUnmount_keepsTimer ==
    /\ listPhase = "mounted"
    /\ listPhase' = "unmounted"
    /\ last' = Quiet
    /\ UNCHANGED <<DetailVars, backend, tasks, FormVars, activeTab, listLoading,
                   refreshInterval, listTimers, refreshes, listData>>

\* onUnmounted: clearInterval(refreshInterval.value) when it is set
ListUnmount ==
    /\ listPhase = "mounted"
    /\ listPhase' = "unmounted"
    /\ listTimers' = IF refreshInterval # 0 THEN listTimers \ {refreshInterval}
                     ELSE listTimers
    /\ last' = Quiet
    /\ UNCHANGED <<DetailVars, backend, tasks, FormVars, activeTab, listLoading,
                   refreshInterval, refreshes, listData>>

\* the interval timer calls refreshTasks
ListTimerFire ==
    /\ listTimers # {}
    /\ refreshTasks("timer")
    /\ UNCHANGED <<DetailVars, backend, tasks, FormVars, listPhase, activeTab,
                   refreshInterval, listTimers, listData>>

\* the refresh button (not while it shows loading) or a TaskList's refresh event
ClickRefresh(button) ==
    /\ listPhase = "mounted"
    /\ button => ~listLoading
    /\ refreshTasks("user")
    /\ UNCHANGED <<DetailVars, backend, tasks, FormVars, listPhase, activeTab,
                   refreshInterval, listTimers, listData>>

\* v-model:activeKey, then handleTabChange
handleTabChange(tab) ==
    /\ listPhase = "mounted"
    /\ tab # activeTab
    /\ BagCardinality(refreshes) < MaxRefreshes
    /\ activeTab' = tab
    /\ listData' = [listData EXCEPT !.currentPage = 1]
    /\ listLoading' = TRUE
    /\ refreshes' = refreshes (+) SetToBag({[pc |-> "getAllTasks",
                                            status |-> getStatusFilter(tab)]})
    /\ last' = [op |-> "refreshTasks", by |-> "user"]
    /\ UNCHANGED <<DetailVars, backend, tasks, FormVars, listPhase,
                   refreshInterval, listTimers>>

\* the pagination of the all, completed and failed tabs
handleTableChange(page, size) ==
    /\ listPhase = "mounted"
    /\ activeTab # "running"
    /\ listData' = [listData EXCEPT !.currentPage = page, !.pageSize = size]
    /\ refreshTasks("user")
    /\ UNCHANGED <<DetailVars, backend, tasks, FormVars, listPhase, activeTab,
                   refreshInterval, listTimers>>

\* the pagination of the running tab: client side, no request
handleRunningTableChange(page, size) ==
    /\ listPhase = "mounted"
    /\ activeTab = "running"
    /\ listData' = [listData EXCEPT !.currentPage = page, !.pageSize = size]
    /\ last' = Quiet
    /\ UNCHANGED <<DetailVars, backend, tasks, FormVars, listPhase, activeTab,
                   listLoading, refreshInterval, listTimers, refreshes>>

\* the lists after a successful first response (lines 136-161)
classified(d, status, response) ==
    IF status # "undefined"
    THEN [d EXCEPT !.totalTasks = response.total,
                   !.completedTasks = IF status = "completed" THEN response.data
                                      ELSE @,
                   !.failedTasks = IF status = "failed" THEN response.data ELSE @,
                   !.allTasks = response.data]
    ELSE [d EXCEPT !.totalTasks = response.total,
                   !.allTasks = response.data,
                   !.runningTasks = RunningOf(response.data),
                   !.completedTasks = response.data \cap {"completed"},
                   !.failedTasks = response.data \cap {"failed"}]

\* the first getAllTasks answered with success
RefreshOk(r, response) ==
    /\ r \in BagToSet(refreshes)
    /\ r.pc = "getAllTasks"
    /\ listData' = classified(listData, r.status, response)
    /\ IF activeTab = "running"
       THEN /\ refreshes' = Moved(refreshes, r, [r EXCEPT !.pc = "getAllTasks(1000, 0)"])
            /\ UNCHANGED listLoading
       ELSE /\ refreshes' = Dropped(refreshes, r)
            /\ listLoading' = FALSE
    /\ last' = Quiet
    /\ UNCHANGED <<DetailVars, backend, tasks, FormVars, listPhase, activeTab,
                   refreshInterval, listTimers>>

\* a getAllTasks answered without success, or rejected: finally only
RefreshFails(r) ==
    /\ r \in BagToSet(refreshes)
    /\ refreshes' = Dropped(refreshes, r)
    /\ listLoading' = FALSE
    /\ last' = Quiet
    /\ UNCHANGED <<DetailVars, backend, tasks, FormVars, listPhase, activeTab,
                   refreshInterval, listTimers, listData>>

\* the second getAllTasks (running tab) answered with success
RefreshAllOk(r, response) ==
    /\ r \in BagToSet(refreshes)
    /\ r.pc = "getAllTasks(1000, 0)"
    /\ listData' = [listData EXCEPT !.runningTasks = RunningOf(response.data)]
    /\ refreshes' = Dropped(refreshes, r)
    /\ listLoading' = FALSE
    /\ last' = Quiet
    /\ UNCHANGED <<DetailVars, backend, tasks, FormVars, listPhase, activeTab,
                   refreshInterval, listTimers>>

InitList == Init /\ ~PollFlag

NextList ==
    \/ ListMount
    \/ ListUnmount
    \/ ListTimerFire
    \/ \E button \in BOOLEAN : ClickRefresh(button)
    \/ \E tab \in Tabs : handleTabChange(tab)
    \/ \E page \in 1..MaxPage, size \in PageSizes : handleTableChange(page, size)
    \/ \E page \in 1..MaxPage, size \in PageSizes : handleRunningTableChange(page, size)
    \/ \E r \in BagToSet(refreshes), response \in ListResponses : RefreshOk(r, response)
    \/ \E r \in BagToSet(refreshes) : RefreshFails(r)
    \/ \E r \in BagToSet(refreshes), response \in ListResponses : RefreshAllOk(r, response)

SpecList == InitList /\ [][NextList]_vars

\* C23 (task-list auto refresh): mounting calls refreshTasks once and leaves
\* exactly one live interval timer, the one refreshInterval holds; while the
\* view is mounted that stays the only timer; unmounting leaves no live timer,
\* and no refresh is started by the timer once the view is unmounted.
C23_AutoRefreshLifecycle ==
    /\ [](listPhase = "created" => listTimers = {} /\ refreshes = EmptyBag)
    /\ [](listPhase = "mounted" =>
              refreshInterval # 0 /\ listTimers = {refreshInterval})
    /\ [](listPhase = "unmounted" => listTimers = {})
    /\ [][listPhase = "created" /\ listPhase' = "mounted" =>
            /\ BagCardinality(refreshes') = 1
            /\ listLoading'
            /\ last' = [op |-> "refreshTasks", by |-> "onMounted"]]_vars
    /\ [][last'.op = "refreshTasks" /\ last'.by = "timer" =>
            listPhase = "mounted"]_vars

\* the view was unmounted while a refresh was in flight
C23_Witness ==
    /\ listPhase = "unmounted"
    /\ listTimers = {}
    /\ refreshInterval # 0
    /\ refreshes # EmptyBag

---------------------------------------------------------------------------
(* The task store (router/index.ts, lines 55-114).  tasks.value is a Map: a
   sequence of entries in insertion order with one entry per key; set() on a
   present key replaces the value in place, delete() of an absent key does
   nothing. *)

StoreIds == {1, 2}
StoreStatuses == {"pending", "transcribing", "completed", "failed"}
StoreTasks == [id : StoreIds, status : StoreStatuses, progress : {0, 100}]

\* Partial<TaskStatus>
Updates ==
    [status : StoreStatuses] \cup [progress : {0, 100}]
        \cup [status : StoreStatuses, progress : {0, 100}]

Undefined == [undefined |-> TRUE]

Has(m, key) == \E i \in DOMAIN m : m[i].key = key

\* Map.prototype.get
MapGet(m, key) ==
    IF Has(m, key) THEN (CHOOSE e \in {m[i] : i \in DOMAIN m} : e.key = key).value
    ELSE Undefined

\* Map.prototype.set
MapSet(m, key, value) ==
    IF Has(m, key)
    THEN [i \in DOMAIN m |-> IF m[i].key = key THEN [key |-> key, value |-> value]
                             ELSE m[i]]
    ELSE Append(m, [key |-> key, value |-> value])

\* Map.prototype.delete
MapDelete(m, key) == SelectSeq(m, LAMBDA e : e.key # key)

\* { ...task, ...updates }
Spread(task, updates) == updates @@ task

addTask(m, task) == MapSet(m, task.id, task)

\* updateTask creating the entry when the id is not in the store
updateTask_upserts(m, taskId, updates) ==
    LET task == MapGet(m, taskId)
    IN IF task # Undefined THEN MapSet(m, taskId, Spread(task, updates))
       ELSE MapSet(m, taskId, updates)

updateTask(m, taskId, updates) ==
    LET task == MapGet(m, taskId)
    IN IF task # Undefined THEN MapSet(m, taskId, Spread(task, updates)) ELSE m

getTask(m, taskId) == MapGet(m, taskId)

removeTask(m, taskId) == MapDelete(m, taskId)

clearTasks(m) == << >>

\* the computed lists
allTasks(m) == [i \in DOMAIN m |-> m[i].value]
runningTasks(m) == SelectSeq(allTasks(m), LAMBDA t : t.status \in processingStatuses)
pendingTasks(m) == SelectSeq(allTasks(m), LAMBDA t : t.status = "pending")
completedTasks(m) == SelectSeq(allTasks(m), LAMBDA t : t.status = "completed")
failedTasks(m) == SelectSeq(allTasks(m), LAMBDA t : t.status = "failed")

StoreStep(m, op) ==
    /\ tasks' = m
    /\ last' = op
    /\ UNCHANGED <<DetailVars, backend, ListVars, FormVars>>

AddTask(task) == StoreStep(addTask(tasks, task), [op |-> "addTask", task |-> task])

UpdateTask(taskId, updates) ==
    StoreStep(updateTask(tasks, taskId, updates),
              [op |-> "updateTask", taskId |-> taskId, updates |-> updates])

RemoveTask(taskId) ==
    StoreStep(removeTask(tasks, taskId), [op |-> "removeTask", taskId |-> taskId])

ClearTasks == StoreStep(clearTasks(tasks), [op |-> "clearTasks"])

InitStore == Init /\ ~PollFlag

NextStore ==
    \/ \E task \in StoreTasks : AddTask(task)
    \/ \E taskId \in StoreIds, updates \in Updates : UpdateTask(taskId, updates)
    \/ \E taskId \in StoreIds : RemoveTask(taskId)
    \/ ClearTasks

SpecStore == InitStore /\ [][NextStore]_vars

Members(seq) == {seq[i] : i \in DOMAIN seq}

\* C24 (task store): after any sequence of store operations, addTask(t)
\* makes getTask(t.id) equal t and leaves one entry for the id; updateTask on
\* an id that is not in the store changes nothing; removeTask leaves the id
\* absent and a second removeTask changes nothing; runningTasks,
\* completedTasks and failedTasks have no task in common and every pending
\* task is a running task.
C24_TaskStore ==
    /\ [][last'.op = "addTask" =>
            /\ getTask(tasks', last'.task.id) = last'.task
            /\ Cardinality({i \in DOMAIN tasks' : tasks'[i].key = last'.task.id}) = 1
            /\ \A id \in StoreIds \ {last'.task.id} :
                   getTask(tasks', id) = getTask(tasks, id)]_vars
    /\ [][last'.op = "updateTask" /\ getTask(tasks, last'.taskId) = Undefined =>
            tasks' = tasks]_vars
    /\ [][last'.op = "removeTask" =>
            /\ getTask(tasks', last'.taskId) = Undefined
            /\ removeTask(tasks', last'.taskId) = tasks']_vars
    /\ [](/\ Members(runningTasks(tasks)) \cap Members(completedTasks(tasks)) = {}
          /\ Members(runningTasks(tasks)) \cap Members(failedTasks(tasks)) = {}
          /\ Members(completedTasks(tasks)) \cap Members(failedTasks(tasks)) = {}
          /\ Members(pendingTasks(tasks)) \subseteq Members(runningTasks(tasks)))

\* updateTask named an id that had been removed while another task, pending,
\* was in the store
C24_Witness ==
    /\ last.op = "updateTask"
    /\ getTask(tasks, last.taskId) = Undefined
    /\ Len(tasks) = 1
    /\ Len(pendingTasks(tasks)) = 1

---------------------------------------------------------------------------
(* The URL form (part_001, lines 200-435): the single-video field "url" and
   the batch field "batch", each with its own timer variable, indicator and
   analysis.  A timeout set by setTimeout stays in formTimers until it fires
   or is cleared; the request it issues stays in requests until it is
   answered. *)

MaxDebounce == 3

Urls == {"", " ", "A", "B"}

\* !url.trim()
Blank(url) == url \in {"", " "}

\* response.data of analyzeUrl(url)
AnalysisOf(url) == "analysis of " \o url

HandedOut == nextFormTimer["url"] + nextFormTimer["batch"]

FormFrame == <<DetailVars, backend, ListVars, tasks>>

\* analyzeUrlDebounced with the pending timer left to fire
analyzeUrlDebounced_noClear(f, url, shown) ==
    IF Blank(url)
    THEN /\ urlAnalysis' = [shown EXCEPT ![f] = "null"]
         /\ UNCHANGED <<analyzeTimer, formTimers, nextFormTimer, analyzing, latestUrl>>
    ELSE LET handle == nextFormTimer[f] + 1
         IN /\ HandedOut < MaxDebounce
            /\ urlAnalysis' = shown
            /\ analyzing' = [analyzing EXCEPT ![f] = TRUE]
            /\ analyzeTimer' = [analyzeTimer EXCEPT ![f] = handle]
            /\ nextFormTimer' = [nextFormTimer EXCEPT ![f] = handle]
            /\ formTimers' = [formTimers EXCEPT
                                 ![f] = @ \cup {[handle |-> handle, url |-> url]}]
            /\ latestUrl' = [latestUrl EXCEPT ![f] = url]

\* analyzeUrlDebounced / analyzeBatchUrlDebounced (lines 253-304) called with
\* url while the analyses shown are `shown`
analyzeUrlDebounced(f, url, shown) ==
    LET cleared == IF analyzeTimer[f] # 0
                   THEN {t \in formTimers[f] : t.handle # analyzeTimer[f]}
                   ELSE formTimers[f]
    IN IF Blank(url)
       THEN /\ urlAnalysis' = [shown EXCEPT ![f] = "null"]
            /\ formTimers' = [formTimers EXCEPT ![f] = cleared]
            /\ UNCHANGED <<analyzeTimer, nextFormTimer, analyzing, latestUrl>>
       ELSE LET handle == nextFormTimer[f] + 1
            IN /\ HandedOut < MaxDebounce
               /\ urlAnalysis' = shown
               /\ analyzing' = [analyzing EXCEPT ![f] = TRUE]
               /\ analyzeTimer' = [analyzeTimer EXCEPT ![f] = handle]
               /\ nextFormTimer' = [nextFormTimer EXCEPT ![f] = handle]
               /\ formTimers' = [formTimers EXCEPT
                                    ![f] = cleared \cup {[handle |-> handle, url |-> url]}]
               /\ latestUrl' = [latestUrl EXCEPT ![f] = url]

Called(f, url) == [op |-> "analyzeUrlDebounced", field |-> f, url |-> url]

\* onMounted: loadLastUrl() with localStorage holding lastUrl ("" when absent)
FormMount(lastUrl) ==
    /\ formPhase = "created"
    /\ formPhase' = "mounted"
    /\ formData' = IF lastUrl # "" THEN [formData EXCEPT !["url"] = lastUrl]
                   ELSE formData
    /\ IF lastUrl # "" /\ ~Blank(lastUrl)
       THEN /\ analyzeUrlDebounced("url", lastUrl, urlAnalysis)
            /\ last' = Called("url", lastUrl)
       ELSE /\ last' = Quiet
            /\ UNCHANGED <<analyzeTimer, formTimers, nextFormTimer, analyzing,
                           urlAnalysis, latestUrl>>
    /\ UNCHANGED <<FormFrame, requests>>

\* v-model, then handleUrlInput / handleBatchUrlInput
HandleInput(f, url) ==
    /\ formPhase = "mounted"
    /\ url # formData[f]
    /\ formData' = [formData EXCEPT ![f] = url]
    /\ analyzeUrlDebounced(f, url, [urlAnalysis EXCEPT ![f] = "null"])
    /\ last' = Called(f, url)
    /\ UNCHANGED <<FormFrame, formPhase, requests>>

\* handleUrlBlur / handleBatchUrlBlur with a non-blank field
HandleBlur(f) ==
    /\ formPhase = "mounted"
    /\ ~Blank(formData[f])
    /\ analyzeUrlDebounced(f, formData[f], urlAnalysis)
    /\ last' = Called(f, formData[f])
    /\ UNCHANGED <<FormFrame, formPhase, formData, requests>>

\* handleBatchTypeChange with type 'auto' and a non-blank field
HandleBatchTypeChange ==
    /\ formPhase = "mounted"
    /\ ~Blank(formData["batch"])
    /\ analyzeUrlDebounced("batch", formData["batch"], urlAnalysis)
    /\ last' = Called("batch", formData["batch"])
    /\ UNCHANGED <<FormFrame, formPhase, formData, requests>>

\* handleTabChange of the form
FormTabChange ==
    /\ formPhase = "mounted"
    /\ urlAnalysis' = [f \in Fields |-> "null"]
    /\ last' = Quiet
    /\ UNCHANGED <<FormFrame, formPhase, formData, analyzeTimer, formTimers,
                   nextFormTimer, analyzing, requests, latestUrl>>

\* a timeout fires: its callback calls analyzeUrl(url) and awaits
FormTimerFires(f, t) ==
    /\ t \in formTimers[f]
    /\ formTimers' = [formTimers EXCEPT ![f] = @ \ {t}]
    /\ requests' = [requests EXCEPT ![f] = @ (+) SetToBag({t.url})]
    /\ last' = [op |-> "analyzeUrl", field |-> f, url |-> t.url]
    /\ UNCHANGED <<FormFrame, formPhase, formData, analyzeTimer, nextFormTimer,
                   analyzing, urlAnalysis, latestUrl>>

Answered(f, url) == [requests EXCEPT ![f] = @ (-) SetToBag({url})]

\* analyzeUrl(url) answered success
AnalyzeOk(f, url) ==
    /\ url \in BagToSet(requests[f])
    /\ requests' = Answered(f, url)
    /\ urlAnalysis' = [urlAnalysis EXCEPT ![f] = AnalysisOf(url)]
    /\ analyzing' = [analyzing EXCEPT ![f] = FALSE]
    /\ last' = Quiet
    /\ UNCHANGED <<FormFrame, formPhase, formData, analyzeTimer, formTimers,
                   nextFormTimer, latestUrl>>

\* analyzeUrl(url) answered without success
AnalyzeUnsuccessful(f, url) ==
    /\ url \in BagToSet(requests[f])
    /\ requests' = Answered(f, url)
    /\ analyzing' = [analyzing EXCEPT ![f] = FALSE]
    /\ last' = Quiet
    /\ UNCHANGED <<FormFrame, formPhase, formData, analyzeTimer, formTimers,
                   nextFormTimer, urlAnalysis, latestUrl>>

\* analyzeUrl(url) rejected
AnalyzeRejected(f, url) ==
    /\ url \in BagToSet(requests[f])
    /\ requests' = Answered(f, url)
    /\ urlAnalysis' = [urlAnalysis EXCEPT ![f] = "null"]
    /\ analyzing' = [analyzing EXCEPT ![f] = FALSE]
    /\ last' = Quiet
    /\ UNCHANGED <<FormFrame, formPhase, formData, analyzeTimer, formTimers,
                   nextFormTimer, latestUrl>>

InitForm == Init /\ ~PollFlag

NextForm ==
    \/ \E lastUrl \in Urls : FormMount(lastUrl)
    \/ \E f \in Fields, url \in Urls : HandleInput(f, url)
    \/ \E f \in Fields : HandleBlur(f)
    \/ HandleBatchTypeChange
    \/ FormTabChange
    \/ \E f \in Fields : \E t \in formTimers[f] : FormTimerFires(f, t)
    \/ \E f \in Fields, url \in Urls : AnalyzeOk(f, url)
    \/ \E f \in Fields, url \in Urls : AnalyzeUnsuccessful(f, url)
    \/ \E f \in Fields, url \in Urls : AnalyzeRejected(f, url)

SpecForm == InitForm /\ [][NextForm]_vars

DebouncedCall == last'.op = "analyzeUrlDebounced"

\* C25 (debounce): each field has at most one pending timer, the one its
\* timer variable holds, set by the latest call with a non-blank URL; every
\* call of the debounced function leaves none of the timers that were
\* pending; a request is issued only by the pending timer, for that latest
\* URL; a call with a blank URL leaves no timer pending, issues no request
\* and leaves no analysis displayed.
C25_Debounce ==
    /\ [](\A f \in Fields :
              /\ Cardinality(formTimers[f]) <= 1
              /\ \A t \in formTimers[f] :
                     /\ t.handle = analyzeTimer[f]
                     /\ t.url = latestUrl[f]
                     /\ ~Blank(t.url))
    /\ [][DebouncedCall =>
            /\ formTimers'[last'.field] \cap formTimers[last'.field] = {}
            /\ requests' = requests]_vars
    /\ [][DebouncedCall /\ Blank(last'.url) =>
            /\ formTimers'[last'.field] = {}
            /\ urlAnalysis'[last'.field] = "null"]_vars
    /\ [][\A f \in Fields :
            requests'[f] # requests[f] /\ requests[f] \sqsubseteq requests'[f] =>
                /\ requests'[f] = requests[f] (+) SetToBag({latestUrl[f]})
                /\ formTimers[f] # {}
                /\ formTimers'[f] = {}]_vars

\* a second call came before the first call's timer had fired: the timer
\* pending is the second call's
C25_Witness ==
    /\ last.op = "analyzeUrlDebounced"
    /\ last.field = "url"
    /\ last.url = "B"
    /\ nextFormTimer["url"] = 2
    /\ formTimers["url"] = {[handle |-> 2, url |-> "B"]}
    /\ requests["url"] = EmptyBag

\* C29 (analyzing indicator): the indicator of a field is true only while a
\* timer of the field is pending or a request of the field is in flight.
C29_AnalyzingOnlyWhileBusy ==
    \A f \in Fields :
        analyzing[f] => formTimers[f] # {} \/ requests[f] # EmptyBag

\* C30 (analysis of the latest URL): when no timer of a field is pending and
\* none of its requests is in flight, the analysis displayed is null or the
\* response for the latest non-blank URL passed to the debounced call.
C30_AnalysisOfLatestUrl ==
    \A f \in Fields :
        formTimers[f] = {} /\ requests[f] = EmptyBag =>
            urlAnalysis[f] \in {"null", AnalysisOf(latestUrl[f])}
====
